---- MODULE Spec2Model ----
(***************************************************************************)
(* The OrgChart component of harkje (src/components/OrgChart.tsx): the     *)
(* "Balanced Hybrid" layout engine (computeBalancedLayout), the layout     *)
(* effect that runs it and publishes the bounds, the click handler that    *)
(* toggles collapsedIds and the resize handler.                            *)
(*                                                                         *)
(* Numbers.  All lengths are pixels.  Every footprint width the engine     *)
(* computes is an even integer (180, sums of even numbers and of gaps 20   *)
(* and 12, and 2 * max(...)), so every division by two of the source is    *)
(* exact in the integers and x, y are integers (EvenWidths checks this).   *)
(* targetAspectRatio is held in tenths (the slider of src/App.tsx moves    *)
(* from 0.5 to 2 in steps of 0.1), and the two comparisons of the source   *)
(* that involve it are cross-multiplied:                                   *)
(*   linearW / D > t * 1.5            <=>  20 * linearW > 3 * t10 * D      *)
(*   cur + w > sqrt(area * t)         <=>  10 * (cur + w)^2 > area * t10   *)
(* Math.ceil(Math.sqrt(v)) is the least c with c * c >= v.                 *)
(***************************************************************************)
EXTENDS Integers, Sequences, FiniteSets, TLC

\* Configuration constants of the component.
CARD_WIDTH == 180
CARD_HEIGHT == 74
GAP_H == 20
GAP_V == 48
GRID_GAP == 12
CHANNEL_WIDTH == 30

\* The slider of the aspect ratio, in tenths.
AspectMin == 5
AspectMax == 20
AspectRange == AspectMin..AspectMax
\* useState<number>(1): the slider starts at 1.0
DefaultAspect == 10

\* useState({ width: 800, height: 600 })
DefaultDimensions == [width |-> 800, height |-> 600]
\* The size of the container that updateDims measures.
ContainerSize == [width |-> 1280, height |-> 720]

\* Bounds of the model.
MaxNodes == 6
MaxCollapsed == 2
\* the nodes of a tree that replaces the data, and the data objects of a run
MaxNewNodes == 3
MaxDataObjects == 2

VARIABLES
    data,               \* prop: the OrgNode tree
    targetAspectRatio,  \* prop: the target aspect ratio, in tenths
    dimensions,         \* state: the viewport size
    collapsedIds,       \* state: the ids of the collapsed nodes
    pending,            \* the layout effect is scheduled (a dependency changed)
    rec,                \* the d3 hierarchy of the last pass, with its scratch fields
    layoutBoundsRef,    \* layoutBoundsRef.current
    prevDataRef,        \* prevDataRef.current: the identity of a data object
    transformRef,       \* transformRef.current
    history,            \* history: what the first pass and the last pass read
                        \* and what the first pass produced
    dataRef,            \* the identity of the object that data is
    svg,                \* the node groups drawn in the svg element
    links,              \* the connector paths drawn in the svg element
    currentData,        \* InputPanel: the currentData prop, an OrgNode with its ids
    jsonInput,          \* InputPanel: the content of the JSON editor, parsed
    csvInput,           \* InputPanel: the data rows of the CSV editor, parsed
    error,              \* InputPanel: the error shown
    newRoot,            \* the argument of the last onDataUpdate call
    nodes,              \* generateFlatOrg: the list being generated
    headIds,            \* generateFlatOrg: the ids of the department heads
    nextId,             \* generateFlatOrg: the next id
    safeCount,          \* generateFlatOrg: the clamped count
    pc                  \* where the generation stands

chartVars == <<data, targetAspectRatio, dimensions, collapsedIds, pending, rec,
               layoutBoundsRef, prevDataRef, transformRef, history, dataRef, svg, links>>
panelVars == <<currentData, jsonInput, csvInput, error, newRoot>>
genVars == <<nodes, headIds, nextId, safeCount, pc>>

vars == <<chartVars, panelVars, genVars>>

\* parentId null, "null" or "": no parent
NullId == 0
\* no tree: what buildTree returns for want of a root, and newRoot before
\* the first onDataUpdate
Null == [root |-> NullId, children |-> <<>>]
\* useState<string | null>(null)
NoError == "null"

\* the panel with empty editors and the generator at rest
\* the OrgNode of one node: its id, its children and whether its title is
\* the title of a leader
SingleNode ==
    [root |-> 1, children |-> [id \in {1} |-> <<>>], leader |-> [id \in {1} |-> FALSE]]
PanelIdle ==
    /\ currentData = SingleNode
    /\ jsonInput = [isArray |-> TRUE, flat |-> <<>>]
    /\ csvInput = <<>>
    /\ error = NoError
    /\ newRoot = Null
GeneratorIdle ==
    /\ nodes = <<>>
    /\ headIds = <<>>
    /\ nextId = 0
    /\ safeCount = 0
    /\ pc = "idle"

-----------------------------------------------------------------------------
(* The OrgNode tree.  A tree of n nodes is the sequence of its parents: the *)
(* nodes are numbered 1..n in document order (a node before its children,   *)
(* the children of a node in their order), node 1 is the root and has       *)
(* parent 0.  The number of a node is its id.                               *)

RECURSIVE AncestorsOrSelf(_, _)
AncestorsOrSelf(p, n) ==
    IF n = 0 THEN {} ELSE {n} \cup AncestorsOrSelf(p, p[n])

RECURSIVE TreesOfSize(_)
TreesOfSize(n) ==
    IF n = 1 THEN {<<0>>}
    ELSE UNION {{Append(p, q) : q \in AncestorsOrSelf(p, Len(p))} :
                    p \in TreesOfSize(n - 1)}

OrgNode == UNION {TreesOfSize(n) : n \in 1..MaxNodes}

\* node.children of the data, in order.
DataChildren(p, n) ==
    SelectSeq([i \in 1..Len(p) |-> i], LAMBDA i : p[i] = n)

-----------------------------------------------------------------------------
(* The d3 hierarchy of a pass.  One record per node of the data; a node the *)
(* pass does not reach keeps NoNode.                                        *)

NoNode ==
    [children |-> <<>>, layout |-> "none", rows |-> <<>>, w |-> 0, h |-> 0,
     placed |-> FALSE, x |-> 0, y |-> 0]

\* a slip: the hierarchy of the previous pass is kept, and with it the
\* children the previous pass set to undefined
hierarchyKept(p, collapsed) ==
    [n \in 1..Len(p) |->
        [NoNode EXCEPT !.children =
            IF n \in collapsed \/ (rec[n].placed /\ rec[n].children = <<>>)
            THEN <<>> ELSE DataChildren(p, n)]]

\* a slip: the collapse state is not applied
hierarchyNoCollapse(p, collapsed) ==
    [n \in 1..Len(p) |-> [NoNode EXCEPT !.children = DataChildren(p, n)]]

\* d3.hierarchy(data) followed by "Apply Collapse State": the children of a
\* node of the hierarchy, none when its id is in the collapsed set.
hierarchy(p, collapsed) ==
    [n \in 1..Len(p) |->
        [NoNode EXCEPT !.children =
            IF n \in collapsed THEN <<>> ELSE DataChildren(p, n)]]

\* The nodes root.eachAfter, root.each and root.descendants visit: the root
\* and every node reached through children links.
RECURSIVE Reached(_, _)
Reached(h, n) ==
    {n} \cup UNION {Reached(h, h[n].children[i]) : i \in 1..Len(h[n].children)}

-----------------------------------------------------------------------------
(* computeBalancedLayout, part 1: the sizes, bottom-up.                     *)

Range(s) == {s[i] : i \in 1..Len(s)}

Max(a, b) == IF a > b THEN a ELSE b

\* sum of c._w over the sequence, plus gap between neighbours
RECURSIVE packedWidth(_, _, _)
packedWidth(h, s, gap) ==
    IF s = <<>> THEN 0
    ELSE h[Head(s)].w + (IF Len(s) > 1 THEN gap ELSE 0) + packedWidth(h, Tail(s), gap)

\* max of c._h over the sequence
RECURSIVE maxHeight(_, _)
maxHeight(h, s) ==
    IF s = <<>> THEN 0 ELSE Max(h[Head(s)].h, maxHeight(h, Tail(s)))

\* a slip: Math.floor for Math.ceil
gridColsFloor(count) ==
    CHOOSE c \in 1..count :
        /\ CARD_HEIGHT * c * c <= count * CARD_WIDTH
        /\ CARD_HEIGHT * (c + 1) * (c + 1) > count * CARD_WIDTH

\* Math.ceil(Math.sqrt(count * (CARD_WIDTH / CARD_HEIGHT)))
gridCols(count) ==
    CHOOSE c \in 1..(count + 1) :
        /\ CARD_HEIGHT * c * c >= count * CARD_WIDTH
        /\ CARD_HEIGHT * (c - 1) * (c - 1) < count * CARD_WIDTH

\* for (i = 0; i < count; i += cols) rows.push(children.slice(i, i + cols))
RECURSIVE gridRows(_, _)
gridRows(s, cols) ==
    IF s = <<>> THEN <<>>
    ELSE IF Len(s) <= cols THEN <<s>>
    ELSE <<SubSeq(s, 1, cols)>> \o gridRows(SubSeq(s, cols + 1, Len(s)), cols)

\* a slip: idealWidth = sqrt(area / t), the ratio taken the wrong way round
exceedsIdealInverse(width, area, t) == width * width * t > 10 * area

\* currentRowWidth + childW > idealWidth, idealWidth = sqrt(area * t)
exceedsIdeal(width, area, t) == 10 * width * width > area * t

\* a slip: the row that is open when the children run out is not pushed
RECURSIVE wrapRowsOpenRowLost(_, _, _, _, _, _, _, _)
wrapRowsOpenRowLost(h, s, i, rows, currentRow, currentRowWidth, area, t) ==
    IF i > Len(s)
    THEN rows
    ELSE LET childW == h[s[i]].w IN
         IF exceedsIdeal(currentRowWidth + childW, area, t) /\ Len(currentRow) > 0
         THEN wrapRowsOpenRowLost(h, s, i + 1, Append(rows, currentRow), <<s[i]>>,
                                  childW, area, t)
         ELSE LET pushed == Append(currentRow, s[i]) IN
              wrapRowsOpenRowLost(h, s, i + 1, rows, pushed,
                                  currentRowWidth + childW
                                      + (IF Len(pushed) > 0 THEN GAP_H ELSE 0),
                                  area, t)

\* the greedy loop of the wrap branch, from child i on
RECURSIVE wrapRows(_, _, _, _, _, _, _, _)
wrapRows(h, s, i, rows, currentRow, currentRowWidth, area, t) ==
    IF i > Len(s)
    THEN IF Len(currentRow) > 0 THEN Append(rows, currentRow) ELSE rows
    ELSE LET childW == h[s[i]].w IN
         IF exceedsIdeal(currentRowWidth + childW, area, t) /\ Len(currentRow) > 0
         THEN wrapRows(h, s, i + 1, Append(rows, currentRow), <<s[i]>>, childW, area, t)
         ELSE LET pushed == Append(currentRow, s[i]) IN
              wrapRows(h, s, i + 1, rows, pushed,
                       currentRowWidth + childW + (IF Len(pushed) > 0 THEN GAP_H ELSE 0),
                       area, t)

\* a slip: children.length >= 2
wantsWrapFromTwo(linearW, maxChildH, count, t) ==
    /\ 20 * linearW > 3 * t * (CARD_HEIGHT + GAP_V + maxChildH)
    /\ count >= 2

\* a slip: the ratio is not compared
wantsWrapAnyRatio(linearW, maxChildH, count, t) == count >= 3

\* currentRatio > targetAspectRatio * 1.5 && children.length >= 3
wantsWrap(linearW, maxChildH, count, t) ==
    /\ 20 * linearW > 3 * t * (CARD_HEIGHT + GAP_V + maxChildH)
    /\ count >= 3

\* a slip: the grid from five leaves on (count > 4)
decideGridFromFive(h, children, t) ==
    LET allChildrenAreLeaves ==
            \A i \in 1..Len(children) : h[children[i]].children = <<>>
        count == Len(children)
        linearW == packedWidth(h, children, GAP_H)
        maxChildH == maxHeight(h, children)
    IN  IF allChildrenAreLeaves /\ count > 4
        THEN [layout |-> "grid", rows |-> gridRows(children, gridCols(count))]
        ELSE IF wantsWrap(linearW, maxChildH, count, t)
        THEN [layout |-> "wrap",
              rows |-> wrapRows(h, children, 1, <<>>, <<>>, 0, linearW * maxChildH, t)]
        ELSE [layout |-> "row", rows |-> <<>>]

\* a slip: the grid from three leaves on (count >= 3)
decideGridFromThree(h, children, t) ==
    LET allChildrenAreLeaves ==
            \A i \in 1..Len(children) : h[children[i]].children = <<>>
        count == Len(children)
        linearW == packedWidth(h, children, GAP_H)
        maxChildH == maxHeight(h, children)
    IN  IF allChildrenAreLeaves /\ count >= 3
        THEN [layout |-> "grid", rows |-> gridRows(children, gridCols(count))]
        ELSE IF wantsWrap(linearW, maxChildH, count, t)
        THEN [layout |-> "wrap",
              rows |-> wrapRows(h, children, 1, <<>>, <<>>, 0, linearW * maxChildH, t)]
        ELSE [layout |-> "row", rows |-> <<>>]

\* DECISION LOGIC: the layout type and the rows of a parent
decide(h, children, t) ==
    LET allChildrenAreLeaves ==
            \A i \in 1..Len(children) : h[children[i]].children = <<>>
        count == Len(children)
        linearW == packedWidth(h, children, GAP_H)
        maxChildH == maxHeight(h, children)
    IN  IF allChildrenAreLeaves /\ count > 3
        THEN [layout |-> "grid", rows |-> gridRows(children, gridCols(count))]
        ELSE IF wantsWrap(linearW, maxChildH, count, t)
        THEN [layout |-> "wrap",
              rows |-> wrapRows(h, children, 1, <<>>, <<>>, 0, linearW * maxChildH, t)]
        ELSE [layout |-> "row", rows |-> <<>>]

itemGap(layout) == IF layout = "grid" THEN GRID_GAP ELSE GAP_H
rowGap(layout) == IF layout = "grid" THEN GRID_GAP ELSE GAP_V

\* left = row.slice(0, mid), right = row.slice(mid), mid = ceil(length / 2)
leftHalf(row) == SubSeq(row, 1, (Len(row) + 1) \div 2)
\* a slip: the right half starts one child late
rightHalfSkipsOne(row) == SubSeq(row, (Len(row) + 1) \div 2 + 2, Len(row))

rightHalf(row) == SubSeq(row, (Len(row) + 1) \div 2 + 1, Len(row))

\* a slip: the two halves and the channel side by side, not made symmetric
rowWidthAsymmetric(h, row, isLastRow, layout) ==
    IF isLastRow /\ Len(row) = 1
    THEN h[row[1]].w
    ELSE packedWidth(h, leftHalf(row), itemGap(layout))
            + CHANNEL_WIDTH + packedWidth(h, rightHalf(row), itemGap(layout))

\* the width one row of a grid or wrap block contributes to maxRowW
rowWidth(h, row, isLastRow, layout) ==
    IF isLastRow /\ Len(row) = 1
    THEN h[row[1]].w
    ELSE LET wLeft == packedWidth(h, leftHalf(row), itemGap(layout))
             wRight == packedWidth(h, rightHalf(row), itemGap(layout))
             distToLeftEdge == wLeft + CHANNEL_WIDTH \div 2
             distToRightEdge == wRight + CHANNEL_WIDTH \div 2
         IN  Max(distToLeftEdge, distToRightEdge) * 2

RECURSIVE maxRowW(_, _, _, _)
maxRowW(h, rows, i, layout) ==
    IF i > Len(rows) THEN 0
    ELSE Max(rowWidth(h, rows[i], i = Len(rows), layout), maxRowW(h, rows, i + 1, layout))

RECURSIVE totalBlockH(_, _, _)
totalBlockH(h, rows, i) ==
    IF i > Len(rows) THEN 0
    ELSE maxHeight(h, rows[i]) + totalBlockH(h, rows, i + 1)

\* a slip: the gaps between the rows of a block are not added to its height
parentSizeNoRowGaps(h, children, layout, rows) ==
    IF layout = "row"
    THEN [w |-> Max(CARD_WIDTH, packedWidth(h, children, GAP_H)),
          h |-> CARD_HEIGHT + GAP_V + maxHeight(h, children)]
    ELSE [w |-> Max(CARD_WIDTH, maxRowW(h, rows, 1, layout)),
          h |-> CARD_HEIGHT + GAP_V + totalBlockH(h, rows, 1)]

\* SIZE CALCULATION of a parent
parentSize(h, children, layout, rows) ==
    IF layout = "row"
    THEN [w |-> Max(CARD_WIDTH, packedWidth(h, children, GAP_H)),
          h |-> CARD_HEIGHT + GAP_V + maxHeight(h, children)]
    ELSE [w |-> Max(CARD_WIDTH, maxRowW(h, rows, 1, layout)),
          h |-> CARD_HEIGHT + GAP_V + totalBlockH(h, rows, 1)
                    + (Len(rows) - 1) * rowGap(layout)]

\* a slip: the leaf branch swaps the width and the height of the card
sizeNodeSwapped(h, n, t) ==
    LET children == h[n].children IN
    IF Len(children) = 0
    THEN [h EXCEPT ![n].w = CARD_HEIGHT, ![n].h = CARD_WIDTH, ![n].layout = "leaf"]
    ELSE LET d == decide(h, children, t)
             size == parentSize(h, children, d.layout, d.rows)
         IN  [h EXCEPT ![n].layout = d.layout, ![n].rows = d.rows,
                       ![n].w = size.w, ![n].h = size.h]

\* the callback of root.eachAfter, for one node whose children are sized
sizeNode(h, n, t) ==
    LET children == h[n].children IN
    IF Len(children) = 0
    THEN [h EXCEPT ![n].w = CARD_WIDTH, ![n].h = CARD_HEIGHT, ![n].layout = "leaf"]
    ELSE LET d == decide(h, children, t)
             size == parentSize(h, children, d.layout, d.rows)
         IN  [h EXCEPT ![n].layout = d.layout, ![n].rows = d.rows,
                       ![n].w = size.w, ![n].h = size.h]

\* root.eachAfter: post-order over the nodes reached from n
RECURSIVE eachAfter(_, _, _)
RECURSIVE eachAfterSeq(_, _, _, _)
eachAfter(h, n, t) == sizeNode(eachAfterSeq(h, h[n].children, 1, t), n, t)
eachAfterSeq(h, s, i, t) ==
    IF i > Len(s) THEN h ELSE eachAfterSeq(eachAfter(h, s[i], t), s, i + 1, t)

-----------------------------------------------------------------------------
(* computeBalancedLayout, part 2: the coordinates, top-down.                *)

\* a slip: the row starts a whole width, not half of it, left of the parent
rowStartXWhole(x, totalChildrenWidth) == x - totalChildrenWidth

\* let currentX = x - totalChildrenWidth / 2
rowStartX(x, totalChildrenWidth) == x - totalChildrenWidth \div 2

\* a slip: the whole channel, not half of it, is left free on the left
leftStartXWholeChannel(x, wLeft) == x - CHANNEL_WIDTH - wLeft

\* let leftStartX = x - (CHANNEL_WIDTH / 2) - wLeft
leftStartX(x, wLeft) == x - CHANNEL_WIDTH \div 2 - wLeft

\* let rightStartX = x + (CHANNEL_WIDTH / 2)
rightStartX(x) == x + CHANNEL_WIDTH \div 2

\* a slip: the next row starts a gap below the top of this one
nextRowYNoHeight(currentY, rowH, vGap) == currentY + vGap

\* currentY += rowH + vGap
nextRowY(currentY, rowH, vGap) == currentY + rowH + vGap

RECURSIVE positionNode(_, _, _, _)
RECURSIVE positionGroup(_, _, _, _, _, _)
RECURSIVE positionRows(_, _, _, _, _)

\* a slip: the children are set a card apart, not a footprint apart
RECURSIVE positionGroupByCard(_, _, _, _, _, _)
positionGroupByCard(h, s, i, startX, y, gap) ==
    IF i > Len(s) THEN h
    ELSE LET child == s[i]
             childX == startX + CARD_WIDTH \div 2
         IN  positionGroupByCard(positionNode(h, child, childX, y), s, i + 1,
                                 startX + CARD_WIDTH + gap, y, gap)

\* children.forEach / leftGroup.forEach / rightGroup.forEach: the children of
\* s from i on, left to right from startX, gap apart
positionGroup(h, s, i, startX, y, gap) ==
    IF i > Len(s) THEN h
    ELSE LET child == s[i]
             childX == startX + h[child].w \div 2
         IN  positionGroup(positionNode(h, child, childX, y), s, i + 1,
                           startX + h[child].w + gap, y, gap)

\* rows.forEach of the grid/wrap branch, from row i on
positionRows(h, n, i, x, currentY) ==
    LET rows == h[n].rows IN
    IF i > Len(rows) THEN h
    ELSE LET row == rows[i]
             rowH == maxHeight(h, row)
             isLastRow == i = Len(rows)
             gapType == itemGap(h[n].layout)
             vGap == rowGap(h[n].layout)
             placed ==
                IF isLastRow /\ Len(row) = 1
                THEN positionNode(h, row[1], x, currentY)
                ELSE LET leftGroup == leftHalf(row)
                         rightGroup == rightHalf(row)
                         wLeft == packedWidth(h, leftGroup, gapType)
                     IN  positionGroup(
                             positionGroup(h, leftGroup, 1, leftStartX(x, wLeft),
                                           currentY, gapType),
                             rightGroup, 1, rightStartX(x), currentY, gapType)
         IN  positionRows(placed, n, i + 1, x, nextRowY(currentY, rowH, vGap))

positionNode(h, n, x, y) ==
    LET here == [h EXCEPT ![n].x = x, ![n].y = y, ![n].placed = TRUE]
        children == h[n].children
    IN  IF Len(children) = 0 THEN here
        ELSE IF h[n].layout = "row"
        THEN LET totalChildrenWidth == packedWidth(h, children, GAP_H)
             IN  positionGroup(here, children, 1, rowStartX(x, totalChildrenWidth),
                               y + CARD_HEIGHT + GAP_V, GAP_H)
        ELSE positionRows(here, n, 1, x, y + CARD_HEIGHT + GAP_V)

computeBalancedLayout(h, t) == positionNode(eachAfter(h, 1, t), 1, 0, 0)

-----------------------------------------------------------------------------
(* The layout effect.                                                       *)

Min(a, b) == IF a < b THEN a ELSE b

SetMin(S) == CHOOSE m \in S : \A k \in S : m <= k
SetMax(S) == CHOOSE m \in S : \A k \in S : m >= k

\* a slip: the fold takes the centres of the cards, not their edges
calculateBoundsCentres(h) ==
    LET each == Reached(h, 1)
        minX == SetMin({h[n].x : n \in each})
        maxX == SetMax({h[n].x : n \in each})
        minY == SetMin({h[n].y : n \in each})
        maxY == SetMax({h[n].y + CARD_HEIGHT : n \in each})
    IN  [minX |-> minX, minY |-> minY,
         treeWidth |-> maxX - minX, treeHeight |-> maxY - minY]

\* "Calculate Bounds": the fold of root.each over the card edges
calculateBounds(h) ==
    LET each == Reached(h, 1)
        minX == SetMin({h[n].x - CARD_WIDTH \div 2 : n \in each})
        maxX == SetMax({h[n].x + CARD_WIDTH \div 2 : n \in each})
        minY == SetMin({h[n].y : n \in each})
        maxY == SetMax({h[n].y + CARD_HEIGHT : n \in each})
    IN  [minX |-> minX, minY |-> minY,
         treeWidth |-> maxX - minX, treeHeight |-> maxY - minY]

\* d3.zoomIdentity, and the transform the auto-fit computes: it is determined
\* by the viewport and the bounds it is computed from, which stand for it.
zoomIdentity == [fit |-> FALSE]
autoFit(dims, b) == [fit |-> TRUE, dims |-> dims, bounds |-> b]

\* a gesture of the user on the chart (pan or wheel): event.transform
userTransform == [fit |-> FALSE, gesture |-> TRUE]

\* useRef<OrgNode | null>(null): the identity of no object
NoData == 0

\* a slip: every pass is taken for a pass over new data
dataChangedAlways(prev, current) == TRUE

\* prevDataRef.current !== data
dataChanged(prev, current) == prev # current

\* a slip: the previous render is left in place
clearSvgKept(drawn) == drawn

\* svg.selectAll("*").remove()
clearSvg(drawn) == {}

\* the node groups of a pass: one per node of root.descendants(), at (x, y)
drawNodes(h) == {[id |-> n, x |-> h[n].x, y |-> h[n].y] : n \in Reached(h, 1)}

\* a slip: the branch of a grid or wrap child is drawn at the height of the
\* row of the child
linkPathLowBranch(h, s, c) ==
    LET sx == h[s].x
        sy == h[s].y + CARD_HEIGHT
        tx == h[c].x
        ty == h[c].y
    IN  <<[x |-> sx, y |-> sy], [x |-> sx, y |-> ty + GAP_V \div 2],
          [x |-> tx, y |-> ty + GAP_V \div 2], [x |-> tx, y |-> ty]>>

\* the "d" of a link: the points of the path from the source (the parent)
\* to the target (the child)
linkPath(h, s, c) ==
    LET sx == h[s].x
        sy == h[s].y + CARD_HEIGHT
        tx == h[c].x
        ty == h[c].y
        branchY == ty - GAP_V \div 2
        midY == (sy + ty) \div 2
    IN  IF h[s].layout \in {"wrap", "grid"}
        THEN IF sx = tx
             THEN <<[x |-> sx, y |-> sy], [x |-> tx, y |-> ty]>>
             ELSE <<[x |-> sx, y |-> sy], [x |-> sx, y |-> branchY],
                    [x |-> tx, y |-> branchY], [x |-> tx, y |-> ty]>>
        ELSE <<[x |-> sx, y |-> sy], [x |-> sx, y |-> midY],
               [x |-> tx, y |-> midY], [x |-> tx, y |-> ty]>>

\* the links of a pass: one path per link of root.links()
drawLinks(h) ==
    UNION {{[source |-> s, target |-> h[s].children[i],
             d |-> linkPath(h, s, h[s].children[i])] : i \in 1..Len(h[s].children)} :
           s \in Reached(h, 1)}

\* the dependencies of the layout effect
EffectDeps == {"data", "dimensions", "direction", "targetAspectRatio", "collapsedIds"}
NoBounds == [minX |-> 0, minY |-> 0, treeWidth |-> -1, treeHeight |-> -1]

\* the hierarchy a pass lays out
passLayout(p, collapsed, t) == computeBalancedLayout(hierarchy(p, collapsed), t)

\* what a pass lays out
layoutInputs ==
    [data |-> data, collapsedIds |-> collapsedIds, targetAspectRatio |-> targetAspectRatio]

NoPass == [inputs |-> <<>>, rec |-> <<>>, bounds |-> NoBounds]

\* useEffect(() => {...}, [data, dimensions, direction, targetAspectRatio, collapsedIds])
LayoutEffect ==
    /\ pending
    /\ LET laid == passLayout(data, collapsedIds, targetAspectRatio)
           b == calculateBounds(laid)
       IN  /\ rec' = laid
           /\ layoutBoundsRef' = b
           /\ svg' = clearSvg(svg) \cup drawNodes(laid)
           /\ links' = drawLinks(laid)
           /\ IF dataChanged(prevDataRef, dataRef)
              THEN /\ transformRef' = autoFit(dimensions, b)
                   /\ prevDataRef' = dataRef
              ELSE UNCHANGED <<transformRef, prevDataRef>>
           /\ history' =
                 [first |-> IF history.passes = 0
                            THEN [inputs |-> layoutInputs, rec |-> laid, bounds |-> b]
                            ELSE history.first,
                  last |-> layoutInputs,
                  passes |-> Min(history.passes + 1, 2)]
    /\ pending' = FALSE
    /\ UNCHANGED <<data, dataRef, targetAspectRatio, dimensions, collapsedIds>>
    /\ UNCHANGED <<panelVars, genVars>>

\* the click handler of a drawn node (a click is taken while at most
\* MaxCollapsed ids are collapsed afterwards: the bound of the model)
toggle(prev, id) == IF id \in prev THEN prev \ {id} ELSE prev \cup {id}

\* a slip: the handler toggles whatever node is clicked
hasChildrenAlways(p, n) == TRUE

\* d.data.children && d.data.children.length > 0
hasChildren(p, n) == Len(DataChildren(p, n)) > 0

Click(n) ==
    /\ ~pending
    /\ rec[n].placed
    /\ IF hasChildren(data, n)
       THEN /\ Cardinality(toggle(collapsedIds, n)) <= MaxCollapsed
            /\ collapsedIds' = toggle(collapsedIds, n)
            /\ pending' = ("collapsedIds" \in EffectDeps)
       ELSE UNCHANGED <<collapsedIds, pending>>
    /\ UNCHANGED <<data, dataRef, targetAspectRatio, dimensions, rec, layoutBoundsRef,
                   prevDataRef, transformRef, history, svg, links>>
    /\ UNCHANGED <<panelVars, genVars>>

\* updateDims, on mount and on every resize of the window
Resize ==
    /\ ~pending
    /\ dimensions' = ContainerSize
    /\ pending' = ("dimensions" \in EffectDeps)
    /\ UNCHANGED <<data, dataRef, targetAspectRatio, collapsedIds, rec, layoutBoundsRef,
                   prevDataRef, transformRef, history, svg, links>>
    /\ UNCHANGED <<panelVars, genVars>>

\* a slip: the collapse state is emptied when the data is replaced
SetDataResetsCollapse(tree) ==
    /\ ~pending
    /\ dataRef < MaxDataObjects
    /\ data' = tree
    /\ dataRef' = dataRef + 1
    /\ collapsedIds' = {}
    /\ pending' = ("data" \in EffectDeps)
    /\ UNCHANGED <<targetAspectRatio, dimensions, rec, layoutBoundsRef,
                   prevDataRef, transformRef, history, svg, links>>
    /\ UNCHANGED <<panelVars, genVars>>

\* onDataUpdate={setData}: the panel hands a new tree object to the chart
SetData(tree) ==
    /\ ~pending
    /\ dataRef < MaxDataObjects
    /\ data' = tree
    /\ dataRef' = dataRef + 1
    /\ pending' = ("data" \in EffectDeps)
    /\ UNCHANGED <<targetAspectRatio, dimensions, collapsedIds, rec, layoutBoundsRef,
                   prevDataRef, transformRef, history, svg, links>>
    /\ UNCHANGED <<panelVars, genVars>>

\* the slider: setTargetAspectRatio(parseFloat(e.target.value))
SetAspect(v) ==
    /\ ~pending
    /\ v # targetAspectRatio
    /\ targetAspectRatio' = v
    /\ pending' = ("targetAspectRatio" \in EffectDeps)
    /\ UNCHANGED <<data, dataRef, dimensions, collapsedIds, rec, layoutBoundsRef,
                   prevDataRef, transformRef, history, svg, links>>
    /\ UNCHANGED <<panelVars, genVars>>

\* the zoom handler: the user pans or zooms the drawn chart
Zoom ==
    /\ ~pending
    /\ transformRef' = userTransform
    /\ UNCHANGED <<data, dataRef, targetAspectRatio, dimensions, collapsedIds, pending,
                   rec, layoutBoundsRef, prevDataRef, history, svg, links>>
    /\ UNCHANGED <<panelVars, genVars>>

\* the chart as it is mounted
Mounted ==
    /\ dimensions = DefaultDimensions
    /\ collapsedIds = {}
    /\ pending = TRUE
    /\ rec = [n \in 1..Len(data) |-> NoNode]
    /\ layoutBoundsRef = NoBounds
    /\ prevDataRef = NoData
    /\ transformRef = zoomIdentity
    /\ history = [first |-> NoPass, last |-> <<>>, passes |-> 0]
    /\ dataRef = 1
    /\ svg = {}
    /\ links = {}

Init ==
    /\ data \in OrgNode
    /\ targetAspectRatio \in AspectRange
    /\ Mounted
    /\ PanelIdle /\ GeneratorIdle

Next ==
    \/ LayoutEffect
    \/ \E n \in 1..Len(data) : Click(n)
    \/ Resize

Spec == Init /\ [][Next]_vars

\* The chart inside the application: the data is replaced, the slider moved
\* and the chart zoomed, over the trees of a few nodes.
NewTrees == UNION {TreesOfSize(n) : n \in 1..MaxNewNodes}

\* useState<OrgNode>(INITIAL_DATA): the root, a child with two children and
\* a child with one
INITIAL_DATA == <<0, 1, 2, 2, 1, 5>>

InitUI ==
    /\ data = INITIAL_DATA
    /\ targetAspectRatio = DefaultAspect
    /\ Mounted
    /\ PanelIdle /\ GeneratorIdle

NextUI ==
    \/ LayoutEffect
    \/ \E n \in 1..Len(data) : Click(n)
    \/ Resize
    \/ \E tree \in NewTrees : SetData(tree)
    \/ \E v \in AspectRange : SetAspect(v)
    \/ Zoom

SpecUI == InitUI /\ [][NextUI]_vars

\* The chart over the flat organisations: a root and up to MaxFanOut direct
\* reports, the trees whose grid has more than one row.
MaxFanOut == 6
FanTrees == {[i \in 1..(k + 1) |-> IF i = 1 THEN 0 ELSE 1] : k \in 1..MaxFanOut}

InitFan ==
    /\ data \in FanTrees
    /\ targetAspectRatio \in AspectRange
    /\ Mounted
    /\ PanelIdle /\ GeneratorIdle

NextFan ==
    \/ LayoutEffect
    \/ \E n \in 1..Len(data) : Click(n)
    \/ Resize

SpecFan == InitFan /\ [][NextFan]_vars

-----------------------------------------------------------------------------
(* InputPanel: from a flat list of nodes to the tree handed to the chart.   *)
(* A FlatNode is its id, its parentId and whether its title (or, without a  *)
(* title, its name) matches the pattern of the leader titles; ids are       *)
(* numbers for the strings String(id).  An OrgNode built by buildTree is    *)
(* the id of the root object and the children array of every object of     *)
(* idMapping: there is one object per distinct id.                          *)

\* Bounds of the panel: the nodes of a JSON list, the data rows of a CSV.
MaxFlatNodes == 3
MaxRows == 3

\* the positions of s that satisfy Test, in order
Positions(s, Test(_)) == SelectSeq([i \in 1..Len(s) |-> i], Test)

\* the last position of s that satisfies Test: a later entry of a map
\* overwrites an earlier one with the same key
LastPosition(s, Test(_)) == SetMax({i \in 1..Len(s) : Test(i)})

buildTree(flatNodes) ==
    LET allIds == {flatNodes[i].id : i \in 1..Len(flatNodes)}
        isExplicitRoot(i) == flatNodes[i].parentId = NullId
        parentExists(i) == flatNodes[i].parentId \in allIds
        isRoot(i) == isExplicitRoot(i) \/ ~parentExists(i)
        idsAt(positions) == [k \in 1..Len(positions) |-> flatNodes[positions[k]].id]
        idMapping(id) == flatNodes[LastPosition(flatNodes, LAMBDA i : flatNodes[i].id = id)]
        potentialRoots == idsAt(Positions(flatNodes, isRoot))
        attached(id) ==
            idsAt(Positions(flatNodes,
                            LAMBDA i : ~isRoot(i) /\ flatNodes[i].parentId = id))
        leaders == SelectSeq(potentialRoots, LAMBDA r : idMapping(r).leader)
    IN  IF Len(potentialRoots) = 0 THEN Null
        ELSE [root |-> IF Len(potentialRoots) > 1 /\ Len(leaders) > 0
                       THEN leaders[1]
                       ELSE potentialRoots[1],
              children |-> [id \in allIds |-> attached(id)]]

\* A data row of the CSV: the cells of the id, user and manager columns; 0
\* is the empty cell (or the absent id column) and a name is a number.  The
\* rows have a user name, and no parentId column.
CsvRow == [id : 0..MaxRows, name : 1..MaxRows, manager : 0..MaxRows]

\* dfs of the cycle detection: k steps up from id never reach the root
RECURSIVE climbs(_, _, _)
climbs(parentById, id, k) ==
    IF id = NullId THEN FALSE
    ELSE IF k = 0 THEN TRUE
    ELSE climbs(parentById, parentById[id], k - 1)

buildFlatNodesFromCsv(rows) ==
    LET n == Len(rows)
        usesExplicitId == \E i \in 1..n : rows[i].id # 0
        idAt(i) == IF usesExplicitId /\ rows[i].id # 0 THEN rows[i].id ELSE i
        \* nameToId.has(key), for a row after the first of that name
        duplicate == \E i, j \in 1..n : i < j /\ rows[i].name = rows[j].name
        names == {rows[i].name : i \in 1..n}
        nameToId(name) == idAt(CHOOSE i \in 1..n : rows[i].name = name)
        unresolved(i) == rows[i].manager # 0 /\ rows[i].manager \notin names
        parentIdAt(i) == IF rows[i].manager = 0 \/ unresolved(i)
                         THEN NullId
                         ELSE nameToId(rows[i].manager)
        roots == {i \in 1..n : parentIdAt(i) = NullId}
        ids == {idAt(i) : i \in 1..n}
        parentById == [id \in ids |->
                          parentIdAt(LastPosition(rows, LAMBDA i : idAt(i) = id))]
        thrown(message) == [error |-> message, nodes |-> <<>>]
    IN  IF n = 0 THEN thrown("CSV is empty.")
        ELSE IF duplicate THEN thrown("Duplicate user name detected")
        ELSE IF \E i \in 1..n : unresolved(i)
        THEN thrown("Some manager names could not be resolved.")
        ELSE IF Cardinality(roots) # 1
        THEN thrown("CSV must define exactly one root")
        ELSE IF \E id \in ids : climbs(parentById, id, Cardinality(ids))
        THEN thrown("Cycle detected in CSV manager relationships.")
        ELSE [error |-> NoError,
              nodes |-> [i \in 1..n |->
                            [id |-> idAt(i), parentId |-> parentIdAt(i),
                             leader |-> FALSE]]]

handleJsonUpdate ==
    /\ IF ~jsonInput.isArray
       THEN /\ error' = "Invalid JSON format"
            /\ UNCHANGED newRoot
       ELSE LET built == buildTree(jsonInput.flat) IN
            IF built # Null
            THEN /\ newRoot' = built
                 /\ error' = NoError
            ELSE /\ error' = "Could not build tree."
                 /\ UNCHANGED newRoot
    /\ UNCHANGED <<currentData, jsonInput, csvInput>>
    /\ UNCHANGED <<chartVars, genVars>>

handleCsvUpdate ==
    /\ LET flatNodes == buildFlatNodesFromCsv(csvInput) IN
       IF flatNodes.error # NoError
       THEN /\ error' = flatNodes.error
            /\ UNCHANGED newRoot
       ELSE LET built == buildTree(flatNodes.nodes) IN
            IF built # Null
            THEN /\ newRoot' = built
                 /\ error' = NoError
            ELSE /\ error' = "Could not build tree from CSV."
                 /\ UNCHANGED newRoot
    /\ UNCHANGED <<currentData, jsonInput, csvInput>>
    /\ UNCHANGED <<chartVars, genVars>>

\* what the user can have typed in the JSON editor: a list of nodes whose
\* parentId is empty, an id of the list or an id that no node has, or
\* something that is not a list
JsonFlatNode ==
    [id : 1..MaxFlatNodes, parentId : 0..(MaxFlatNodes + 1), leader : BOOLEAN]
JsonInputs ==
    {[isArray |-> TRUE, flat |-> f] :
        f \in UNION {[1..n -> JsonFlatNode] : n \in 0..MaxFlatNodes}}
    \cup {[isArray |-> FALSE, flat |-> <<>>]}

\* what the user can have typed in the CSV editor; the names are numbered in
\* the order in which they first can appear
CsvInputs ==
    {rows \in UNION {[1..n -> CsvRow] : n \in 0..MaxRows} :
        \A i \in 1..Len(rows) : rows[i].name <= i}

\* the chart as it is mounted over a tree of one node
ChartIdle ==
    /\ data = <<0>>
    /\ targetAspectRatio = DefaultAspect
    /\ Mounted

InitPanel ==
    /\ ChartIdle
    /\ GeneratorIdle
    /\ currentData = SingleNode
    /\ error = NoError
    /\ newRoot = Null
    /\ \/ jsonInput \in JsonInputs /\ csvInput = <<>>
       \/ jsonInput = [isArray |-> TRUE, flat |-> <<>>] /\ csvInput \in CsvInputs

NextPanel ==
    \/ handleJsonUpdate
    \/ handleCsvUpdate

SpecPanel == InitPanel /\ [][NextPanel]_vars

\* The editors in sync with the chart: the panel is mounted over a tree and
\* the list of the JSON editor is applied as it stands.  The trees are the
\* trees of up to MaxFlatNodes nodes, with distinct ids in any order.
Injections(n) ==
    {f \in [1..n -> 1..MaxFlatNodes] : \A i, j \in 1..n : f[i] = f[j] => i = j}

\* the OrgNode of the shape p (the sequence of the parents) with the ids lab
OrgNodeOf(p, lab, titles) ==
    [root |-> lab[1],
     children |-> [id \in Range(lab) |->
                      LET n == CHOOSE k \in 1..Len(p) : lab[k] = id
                          kids == DataChildren(p, n)
                      IN  [k \in 1..Len(kids) |-> lab[kids[k]]]],
     leader |-> [id \in Range(lab) |-> titles[CHOOSE k \in 1..Len(p) : lab[k] = id]]]

OrgNodes ==
    UNION {{OrgNodeOf(p, lab, titles) :
                p \in TreesOfSize(n), lab \in Injections(n), titles \in [1..n -> BOOLEAN]} :
           n \in 1..MaxFlatNodes}

RECURSIVE flattenTreeReversed(_, _, _)
RECURSIVE flattenEachReversed(_, _, _)
\* a slip: the children are visited from the last to the first
flattenTreeReversed(tree, id, parentId) ==
    <<[id |-> id, parentId |-> parentId, leader |-> tree.leader[id]]>>
        \o flattenEachReversed(tree, tree.children[id], id)
flattenEachReversed(tree, kids, parentId) ==
    IF kids = <<>> THEN <<>>
    ELSE flattenTreeReversed(tree, kids[Len(kids)], parentId)
            \o flattenEachReversed(tree, SubSeq(kids, 1, Len(kids) - 1), parentId)

RECURSIVE flattenTree(_, _, _)
RECURSIVE flattenEach(_, _, _)
\* result.push({id: node.id, parentId, ...}), then the children in order,
\* each with node.id as its parentId
flattenTree(tree, id, parentId) ==
    <<[id |-> id, parentId |-> parentId, leader |-> tree.leader[id]]>>
        \o flattenEach(tree, tree.children[id], id)
\* node.children.forEach(child => flattenTree(child, node.id, result))
flattenEach(tree, kids, parentId) ==
    IF kids = <<>> THEN <<>>
    ELSE flattenTree(tree, Head(kids), parentId) \o flattenEach(tree, Tail(kids), parentId)

\* useState(() => JSON.stringify(flattenTree(currentData), null, 2))
InitSync ==
    /\ ChartIdle
    /\ GeneratorIdle
    /\ currentData \in OrgNodes
    /\ jsonInput = [isArray |-> TRUE, flat |-> flattenTree(currentData, currentData.root, NullId)]
    /\ csvInput = <<>>
    /\ error = NoError
    /\ newRoot = Null

NextSync == handleJsonUpdate

SpecSync == InitSync /\ [][NextSync]_vars

-----------------------------------------------------------------------------
(* The generator (services/geminiService.ts).  A generated node is its id,  *)
(* its parentId, its department and whether the title drawn for it matches  *)
(* the pattern of the leader titles; each draw of the random generator is a *)
(* choice.                                                                  *)

\* Bound of the generator: the largest count asked for.
MaxGenCount == 7

clamp(v, min, max) == Max(min, Min(max, v))

DEPARTMENTS ==
    {"Executive", "Engineering", "Product", "Design", "Sales", "Marketing",
     "Operations", "Finance", "People", "Customer Success"}
deptHeads == <<"Engineering", "Product", "Sales", "Operations">>

\* ROLE_BY_DEPT: whether a title of the department can match, and can fail
\* to match, /ceo|president|founder|director|chief/i
leaderTitles(dept) ==
    IF dept \in {"Executive", "Design", "Finance", "Customer Success"}
    THEN BOOLEAN
    ELSE {FALSE}

\* managerBias: an early node or any node, whichever is drawn
managerBias(list) == {list[i].id : i \in 1..Len(list)}

\* a slip: the new node can be drawn as its own manager
parentChoicesWithSelf(list, heads, dept, id) ==
    {n.id : n \in {m \in Range(list) : m.department = dept}} \cup {id}

\* the parentId of a new node: one of parentPool (when it is not empty and
\* the draw is below 0.6), else one of headIds, else managerBias()
parentChoices(list, heads, dept, id) ==
    LET parentPool == {n \in Range(list) : n.department = dept /\ n.id # id}
    IN  {n.id : n \in parentPool}
            \cup (IF Len(heads) > 0 THEN Range(heads) ELSE managerBias(list))

\* generateFlatOrg is called: the count is clamped and the root is pushed
generateFlatOrg(count) ==
    /\ pc = "idle"
    /\ safeCount' = clamp(count, 2, 80)
    /\ nodes' = <<[id |-> 1, parentId |-> NullId, department |-> "Executive",
                   leader |-> TRUE]>>
    /\ headIds' = <<>>
    /\ nextId' = 2
    /\ pc' = "heads"
    /\ UNCHANGED <<chartVars, panelVars>>

\* for (const dept of deptHeads): one turn of the loop, or its end
AddHead ==
    /\ pc = "heads"
    /\ IF Len(headIds) < Len(deptHeads) /\ Len(nodes) < safeCount
       THEN /\ nodes' = Append(nodes, [id |-> nextId, parentId |-> 1,
                                       department |-> deptHeads[Len(headIds) + 1],
                                       leader |-> FALSE])
            /\ headIds' = Append(headIds, nextId)
            /\ nextId' = nextId + 1
            /\ UNCHANGED pc
       ELSE /\ pc' = "rest"
            /\ UNCHANGED <<nodes, headIds, nextId>>
    /\ UNCHANGED safeCount
    /\ UNCHANGED <<chartVars, panelVars>>

\* while (nodes.length < safeCount): one turn of the loop
AddNode ==
    /\ pc = "rest"
    /\ Len(nodes) < safeCount
    /\ \E dept \in DEPARTMENTS :
       \E leader \in leaderTitles(dept) :
       \E parentId \in parentChoices(nodes, headIds, dept, nextId) :
          nodes' = Append(nodes, [id |-> nextId, parentId |-> parentId,
                                  department |-> dept, leader |-> leader])
    /\ nextId' = nextId + 1
    /\ UNCHANGED <<headIds, safeCount, pc>>
    /\ UNCHANGED <<chartVars, panelVars>>

\* the list is returned to handleDataGeneration of the panel
handleDataGeneration ==
    /\ pc = "rest"
    /\ Len(nodes) >= safeCount
    /\ LET built == buildTree(nodes) IN
       IF built # Null
       THEN /\ newRoot' = built
            /\ error' = NoError
       ELSE /\ error' = "Could not build a valid tree."
            /\ UNCHANGED newRoot
    /\ pc' = "done"
    /\ UNCHANGED <<currentData, jsonInput, csvInput, nodes, headIds, nextId, safeCount>>
    /\ UNCHANGED chartVars

InitGen ==
    /\ ChartIdle
    /\ PanelIdle
    /\ GeneratorIdle

NextGen ==
    \/ \E count \in 1..MaxGenCount : generateFlatOrg(count)
    \/ AddHead
    \/ AddNode
    \/ handleDataGeneration

SpecGen == InitGen /\ [][NextGen]_vars

-----------------------------------------------------------------------------
(* What the claims are stated over: the hierarchy of the last pass.         *)

Nodes == 1..Len(data)
\* the nodes the last pass positioned
Visible == {n \in Nodes : rec[n].placed}
Kids(n) == rec[n].children
Parents == {n \in Visible : Len(Kids(n)) > 0}
Blocks == {n \in Parents : rec[n].layout \in {"grid", "wrap"}}
IsLeafCard(n) ==
    rec[n].w = CARD_WIDTH /\ rec[n].h = CARD_HEIGHT /\ rec[n].layout = "leaf"

Abs(a) == IF a < 0 THEN -a ELSE a

\* the footprint of a node: [x - w/2, x + w/2]
FootLeft(n) == rec[n].x - rec[n].w \div 2
FootRight(n) == rec[n].x + rec[n].w \div 2

\* the open card rectangles of a and b intersect
CardsOverlap(a, b) ==
    /\ Abs(rec[a].x - rec[b].x) < CARD_WIDTH
    /\ Abs(rec[a].y - rec[b].y) < CARD_HEIGHT

\* the divisions by two of the source are exact
EvenWidths == \A n \in Nodes : rec[n].w % 2 = 0

-----------------------------------------------------------------------------
\* C1: after a pass, no two children of the same parent have overlapping
\* card rectangles, whatever the layout type of the parent and whatever the
\* aspect ratio of the slider.
C1_SiblingCardsDisjoint ==
    \A n \in Parents : \A i, j \in 1..Len(Kids(n)) :
        i < j => ~CardsOverlap(Kids(n)[i], Kids(n)[j])

\* a wrap parent with two rows or more, one of them split in two halves
C1_Witness ==
    /\ ~pending
    /\ \E n \in Parents :
          /\ rec[n].layout = "wrap"
          /\ Len(rec[n].rows) >= 2
          /\ \E r \in 1..Len(rec[n].rows) : Len(rec[n].rows[r]) >= 2

\* C2: after the sizing pass every node without visible children (a leaf of
\* the data or a collapsed node) has the footprint W x H and the layout type
\* leaf, and every node has a footprint at least W wide.
C2_LeafFootprint ==
    /\ \A n \in Visible :
          /\ Len(Kids(n)) = 0 => IsLeafCard(n)
          /\ rec[n].w >= CARD_WIDTH
    /\ ~pending =>
          \A n \in Visible :
              (Len(DataChildren(data, n)) = 0 \/ n \in collapsedIds) => IsLeafCard(n)

\* a pass that placed a collapsed node with children in the data, a leaf of
\* the data and a parent wider than one card
C2_Witness ==
    /\ ~pending
    /\ \E n \in Visible : n \in collapsedIds /\ Len(DataChildren(data, n)) > 0
    /\ \E n \in Visible : n \notin collapsedIds /\ Len(DataChildren(data, n)) = 0
    /\ \E n \in Parents : rec[n].w > CARD_WIDTH

\* C3: the x of a row parent is the midpoint of the span of its children,
\* from the left edge of the first footprint to the right edge of the last,
\* and its children all have y = parent.y + H + Gv.
C3_RowParentCentred ==
    \A n \in Parents :
        rec[n].layout = "row" =>
            /\ 2 * rec[n].x = FootLeft(Kids(n)[1]) + FootRight(Kids(n)[Len(Kids(n))])
            /\ \A i \in 1..Len(Kids(n)) :
                   rec[Kids(n)[i]].y = rec[n].y + CARD_HEIGHT + GAP_V

\* a row parent whose first and last children have footprints of different
\* widths, so that the midpoint of the span is not the midpoint of the cards
C3_Witness ==
    /\ ~pending
    /\ \E n \in Parents :
          /\ rec[n].layout = "row"
          /\ Len(Kids(n)) >= 2
          /\ rec[Kids(n)[1]].w # rec[Kids(n)[Len(Kids(n))]].w

\* C4: in a grid or wrap parent the x of the parent is the channel midpoint
\* of every split row: the left half ends at x - C/2 and the right half, when
\* the row has one, starts at x + C/2; a final row of exactly one child is
\* placed at the x of the parent.
C4_ChannelMidpoint ==
    \A n \in Blocks : \A r \in 1..Len(rec[n].rows) :
        LET row == rec[n].rows[r]
            mid == (Len(row) + 1) \div 2
        IN  IF r = Len(rec[n].rows) /\ Len(row) = 1
            THEN rec[row[1]].x = rec[n].x
            ELSE /\ FootRight(row[mid]) = rec[n].x - CHANNEL_WIDTH \div 2
                 /\ Len(row) > mid =>
                        FootLeft(row[mid + 1]) = rec[n].x + CHANNEL_WIDTH \div 2

\* a block with a row split in two non-empty halves and a final row of one
C4_Witness ==
    /\ ~pending
    /\ \E n \in Blocks :
          /\ Len(rec[n].rows) >= 2
          /\ Len(rec[n].rows[1]) >= 2
          /\ Len(rec[n].rows[Len(rec[n].rows)]) = 1

\* a step of the layout effect
IsPass == pending /\ ~pending'

RowCount(d) == IF d.layout = "row" THEN 1 ELSE Len(d.rows)
RowCountAt(n, t) == RowCount(decide(rec, Kids(n), t))

\* C6: for a parent with a fixed sequence of sized children, the number of
\* rows chosen never increases when the aspect ratio increases (and so never
\* decreases when it decreases); stated for every step of the slider, which
\* gives every pair of values by transitivity.
C6_RowCountMonotone ==
    ~pending =>
        \A n \in Parents : \A t \in AspectMin..(AspectMax - 1) :
            RowCountAt(n, t + 1) <= RowCountAt(n, t)

\* a parent of four children or more that is wrapped at some value of the
\* slider and gets fewer rows at the next one
C6_Witness ==
    /\ ~pending
    /\ \E n \in Parents : \E t \in AspectMin..(AspectMax - 1) :
          /\ Len(Kids(n)) >= 4
          /\ decide(rec, Kids(n), t).layout = "wrap"
          /\ decide(rec, Kids(n), t + 1).layout = "wrap"
          /\ RowCountAt(n, t + 1) < RowCountAt(n, t)

\* C7: a parent with one or two visible children is a row at every aspect
\* ratio; the two leaf children of a root are placed at x -/+ (W + Gh)/2
\* around the x of the root, exactly Gh apart.
C7_SmallGroupsAreRows ==
    /\ \A n \in Parents : Len(Kids(n)) <= 2 => rec[n].layout = "row"
    /\ (/\ 1 \in Parents
        /\ Len(Kids(1)) = 2
        /\ \A i \in 1..2 : Len(Kids(Kids(1)[i])) = 0)
       => /\ rec[Kids(1)[1]].x = rec[1].x - (CARD_WIDTH + GAP_H) \div 2
          /\ rec[Kids(1)[2]].x = rec[1].x + (CARD_WIDTH + GAP_H) \div 2
          /\ (rec[Kids(1)[2]].x - CARD_WIDTH \div 2)
                 - (rec[Kids(1)[1]].x + CARD_WIDTH \div 2) = GAP_H

\* Scenario A: a root with two leaf children, laid out at the least aspect
\* ratio of the slider, where a group of three would be wrapped
C7_Witness ==
    /\ ~pending
    /\ targetAspectRatio = AspectMin
    /\ 1 \in Parents
    /\ Len(Kids(1)) = 2
    /\ \A i \in 1..2 : Len(Kids(Kids(1)[i])) = 0

RECURSIVE Flatten(_)
Flatten(rows) == IF rows = <<>> THEN <<>> ELSE Head(rows) \o Flatten(Tail(rows))

RECURSIVE SumLen(_)
SumLen(rows) == IF rows = <<>> THEN 0 ELSE Len(Head(rows)) + SumLen(Tail(rows))

\* C8: a parent whose visible children are all leaves and number more than
\* three is a grid of cols = ceil(sqrt(count * W / H)) columns: its rows are
\* consecutive chunks of the children, each but the last of exactly cols
\* children, the last of 1..cols, and the row sizes sum to count.
C8_GridPartition ==
    \A n \in Parents :
        (Len(Kids(n)) > 3 /\ \A i \in 1..Len(Kids(n)) : Len(Kids(Kids(n)[i])) = 0)
        => LET count == Len(Kids(n))
               rows == rec[n].rows
           IN  /\ rec[n].layout = "grid"
               /\ \E cols \in 1..(count + 1) :
                     /\ CARD_HEIGHT * cols * cols >= count * CARD_WIDTH
                     /\ CARD_HEIGHT * (cols - 1) * (cols - 1) < count * CARD_WIDTH
                     /\ \A r \in 1..(Len(rows) - 1) : Len(rows[r]) = cols
                     /\ Len(rows) >= 1
                     /\ Len(rows[Len(rows)]) \in 1..cols
               /\ Flatten(rows) = Kids(n)
               /\ SumLen(rows) = count

\* Scenario B: a parent with five leaf children
C8_Witness ==
    /\ ~pending
    /\ \E n \in Parents :
          /\ Len(Kids(n)) = 5
          /\ \A i \in 1..5 : Len(Kids(Kids(n)[i])) = 0
          /\ Len(rec[n].rows) = 2

\* the packed width of a row of children, and the area the wrap branch
\* takes the ideal row width from
RowPacked(row) == packedWidth(rec, row, GAP_H)
WrapArea(n) == packedWidth(rec, Kids(n), GAP_H) * maxHeight(rec, Kids(n))
\* width <= idealRowWidth = sqrt(area * t)
WithinIdeal(width, n) == width <= 0 \/ 10 * width * width <= WrapArea(n) * targetAspectRatio

\* C9: a wrap parent has two rows or more, and the packed width of each of
\* its rows is at most idealRowWidth plus the width of one child of the row.
C9_WrapRows ==
    ~pending =>
        \A n \in Parents :
            rec[n].layout = "wrap" =>
                /\ Len(rec[n].rows) >= 2
                /\ \A r \in 1..Len(rec[n].rows) :
                       LET row == rec[n].rows[r] IN
                       \E i \in 1..Len(row) :
                           WithinIdeal(RowPacked(row) - rec[row[i]].w, n)

\* a wrap parent with a row of two children or more that is wider than
\* idealRowWidth: the tolerance is used
C9_Witness ==
    /\ ~pending
    /\ \E n \in Parents :
          /\ rec[n].layout = "wrap"
          /\ \E r \in 1..Len(rec[n].rows) :
                /\ Len(rec[n].rows[r]) >= 2
                /\ ~WithinIdeal(RowPacked(rec[n].rows[r]), n)

\* the nodes of the data below n
Descendants(n) == {d \in Nodes : d # n /\ n \in AncestorsOrSelf(data, d)}
CollapsedParents == {n \in Nodes \cap collapsedIds : Len(DataChildren(data, n)) > 0}

\* the pass neither sized nor positioned (nor drew) the node
Untouched(d) == ~rec[d].placed /\ rec[d].layout = "none" /\ rec[d].w = 0 /\ rec[d].h = 0

\* the min/max fold of the card edges over a set of positioned nodes
CardBounds(S) ==
    LET minX == SetMin({rec[n].x - CARD_WIDTH \div 2 : n \in S})
        maxX == SetMax({rec[n].x + CARD_WIDTH \div 2 : n \in S})
        minY == SetMin({rec[n].y : n \in S})
        maxY == SetMax({rec[n].y + CARD_HEIGHT : n \in S})
    IN  [minX |-> minX, minY |-> minY,
         treeWidth |-> maxX - minX, treeHeight |-> maxY - minY]

\* C10 as stated: every node with children whose id is in the collapsed set
\* is positioned as a leaf card, and none of its descendants is sized,
\* positioned or counted in the bounds.
C10_Original ==
    ~pending =>
        /\ \A n \in CollapsedParents :
              /\ rec[n].placed /\ IsLeafCard(n)
              /\ \A d \in Descendants(n) : Untouched(d)
        /\ layoutBoundsRef = CardBounds(Visible)

\* C10 (amended): every node with children whose id is in the collapsed set
\* and none of whose ancestors is in the set is positioned as a leaf card;
\* no descendant of a collapsed node is sized or positioned, and the bounds
\* are the fold over the positioned nodes alone.
C10_CollapsedSubtree ==
    ~pending =>
        /\ \A n \in CollapsedParents :
              /\ (AncestorsOrSelf(data, n) \cap collapsedIds = {n})
                    => rec[n].placed /\ IsLeafCard(n)
              /\ \A d \in Descendants(n) : Untouched(d)
        /\ layoutBoundsRef = CardBounds(Visible)
        /\ Visible = Nodes \ UNION {Descendants(n) : n \in CollapsedParents}

\* a collapsed node with children, not the root, whose subtree held the
\* lowest card: the bounds are lower than those of the first pass
C10_Witness ==
    /\ ~pending
    /\ \E n \in CollapsedParents : n # 1 /\ rec[n].placed
    /\ history.passes > 0
    /\ layoutBoundsRef.treeHeight < history.first.bounds.treeHeight
-----------------------------------------------------------------------------
\* the pass about to run follows a click that collapsed n, a node the
\* previous pass drew with children, and nothing else changed since
CollapsedSince(n) ==
    /\ history.passes > 0
    /\ n \in Parents
    /\ n \notin history.last.collapsedIds
    /\ collapsedIds = history.last.collapsedIds \cup {n}
    /\ history.last.targetAspectRatio = targetAspectRatio
    /\ history.last.data = data

\* C11: for a fixed tree and aspect ratio, adding one node that has visible
\* children to the collapsed set never makes the bounding rectangle larger:
\* the width and the height of the bounds of the next pass are each at most
\* what they were.
C11_CollapseShrinksBounds ==
    [][(IsPass /\ \E n \in Nodes : CollapsedSince(n))
          => /\ layoutBoundsRef'.treeWidth <= layoutBoundsRef.treeWidth
             /\ layoutBoundsRef'.treeHeight <= layoutBoundsRef.treeHeight]_vars

\* a pass has run after the collapse of a node and its bounds are wider or
\* taller than those of the same pass with that node expanded
C11_LargerAfterCollapse ==
    /\ ~pending
    /\ history.passes > 1
    /\ \E n \in Visible \cap collapsedIds :
          /\ Len(DataChildren(data, n)) > 0
          /\ LET before == calculateBounds(passLayout(data, collapsedIds \ {n},
                                                      targetAspectRatio))
             IN  \/ layoutBoundsRef.treeWidth > before.treeWidth
                 \/ layoutBoundsRef.treeHeight > before.treeHeight
-----------------------------------------------------------------------------
LayoutTypes == {"leaf", "row", "grid", "wrap"}

\* the nodes that are visible under the collapsed set: no proper ancestor
\* of theirs is collapsed
VisibleIn(p, collapsed) ==
    {n \in 1..Len(p) : (AncestorsOrSelf(p, n) \ {n}) \cap collapsed = {}}

\* C12: for every tree, collapsed set and aspect ratio, the sizing and the
\* positioning terminate without error (the pass that is due can run) and
\* leave every visible node with a layout type, a width, a height, an x and
\* a y.
C12_PassDefinesEveryVisibleNode ==
    /\ pending =>
          LET laid == passLayout(data, collapsedIds, targetAspectRatio)
          IN  /\ DOMAIN laid = Nodes
              /\ \A n \in VisibleIn(data, collapsedIds) : laid[n].placed
    /\ ~pending =>
          \A n \in VisibleIn(data, collapsedIds) :
              /\ rec[n].placed
              /\ rec[n].layout \in LayoutTypes
              /\ rec[n].w >= CARD_WIDTH
              /\ rec[n].h >= CARD_HEIGHT
              /\ rec[n].x \in Int /\ rec[n].y \in Int

\* a pass over a tree with a collapsed node, a grid or wrap block with a
\* row split in halves of two and a hidden node
C12_Witness ==
    /\ ~pending
    /\ collapsedIds # {}
    /\ VisibleIn(data, collapsedIds) # Nodes
    /\ \E n \in Blocks : \E r \in 1..Len(rec[n].rows) : Len(rec[n].rows[r]) >= 3
-----------------------------------------------------------------------------
\* the edges of the card of n
CardLeft(n) == rec[n].x - CARD_WIDTH \div 2
CardRight(n) == rec[n].x + CARD_WIDTH \div 2
CardTop(n) == rec[n].y
CardBottom(n) == rec[n].y + CARD_HEIGHT

\* C13: the published bounds {minX, minY, treeWidth, treeHeight} are the
\* min/max fold of the card edges over the positioned nodes: every
\* positioned card lies inside the rectangle, and each of its four sides is
\* touched by some card.
C13_BoundsAreTheFold ==
    ~pending =>
        LET b == layoutBoundsRef
            maxX == b.minX + b.treeWidth
            maxY == b.minY + b.treeHeight
        IN  /\ \A n \in Visible :
                  /\ b.minX <= CardLeft(n) /\ CardRight(n) <= maxX
                  /\ b.minY <= CardTop(n) /\ CardBottom(n) <= maxY
            /\ \E n \in Visible : CardLeft(n) = b.minX
            /\ \E n \in Visible : CardRight(n) = maxX
            /\ \E n \in Visible : CardTop(n) = b.minY
            /\ \E n \in Visible : CardBottom(n) = maxY

\* a pass whose four sides are touched by more than two cards: the root is
\* on neither the left nor the right side, and the chart is not symmetric
C13_Witness ==
    /\ ~pending
    /\ layoutBoundsRef.treeWidth > CARD_WIDTH
    /\ CardLeft(1) # layoutBoundsRef.minX
    /\ layoutBoundsRef.minX + layoutBoundsRef.treeWidth # -layoutBoundsRef.minX
    /\ \E n \in Visible : rec[n].y > CARD_HEIGHT + GAP_V
-----------------------------------------------------------------------------
\* the aggregation as the specification words it, over the sizes of the pass
RECURSIVE SumOfWidths(_)
SumOfWidths(S) == IF S = {} THEN 0
                  ELSE LET c == CHOOSE c \in S : TRUE
                       IN  rec[c].w + SumOfWidths(S \ {c})

MaxChildHeight(s) == SetMax({rec[c].h : c \in Range(s)} \cup {0})

\* the widths of the children of s, with the gap between neighbours
GroupWidth(s, gap) ==
    IF Len(s) = 0 THEN 0 ELSE SumOfWidths(Range(s)) + (Len(s) - 1) * gap

\* ceil(n / 2)
CeilHalf(n) == IF n % 2 = 0 THEN n \div 2 ELSE (n + 1) \div 2

SpecRowWidth(row, isLast, gap) ==
    IF isLast /\ Len(row) = 1
    THEN rec[row[1]].w
    ELSE LET left == [i \in 1..CeilHalf(Len(row)) |-> row[i]]
             right == [i \in 1..(Len(row) - CeilHalf(Len(row))) |->
                          row[CeilHalf(Len(row)) + i]]
             leftWidth == GroupWidth(left, gap)
             rightWidth == GroupWidth(right, gap)
         IN  2 * Max(leftWidth + CHANNEL_WIDTH \div 2, rightWidth + CHANNEL_WIDTH \div 2)

RECURSIVE SumOfRowHeights(_, _)
SumOfRowHeights(rows, i) ==
    IF i > Len(rows) THEN 0
    ELSE MaxChildHeight(rows[i]) + SumOfRowHeights(rows, i + 1)

\* C20: the footprint of a parent is the aggregation of the specification.
\* Row: width = sum of the child widths + (count - 1) * GAP_H, height =
\* CARD_HEIGHT + GAP_V + max child height. Grid and wrap: width = the largest
\* row width, a split row being 2 * max(leftWidth + C/2, rightWidth + C/2)
\* with the first ceil(n/2) children on the left and a lone child of the
\* final row counting its own width; height = CARD_HEIGHT + GAP_V + the sum
\* of the row max-heights + (rowCount - 1) * the row gap (GRID_GAP between
\* items and rows of a grid, GAP_H between items and GAP_V between rows of a
\* wrap).
C20_ParentFootprint ==
    ~pending =>
        \A n \in Parents :
            IF rec[n].layout = "row"
            THEN /\ rec[n].w = GroupWidth(Kids(n), GAP_H)
                 /\ rec[n].h = CARD_HEIGHT + GAP_V + MaxChildHeight(Kids(n))
            ELSE LET rows == rec[n].rows
                     grid == rec[n].layout = "grid"
                     gap == IF grid THEN GRID_GAP ELSE GAP_H
                     vgap == IF grid THEN GRID_GAP ELSE GAP_V
                 IN  /\ rec[n].layout \in {"grid", "wrap"}
                     /\ rec[n].w = SetMax({SpecRowWidth(rows[r], r = Len(rows), gap) :
                                              r \in 1..Len(rows)})
                     /\ rec[n].h = CARD_HEIGHT + GAP_V + SumOfRowHeights(rows, 1)
                                      + (Len(rows) - 1) * vgap

\* a wrap parent with a row of unequal halves that is not the final row,
\* and a final row of one child
C20_Witness ==
    /\ ~pending
    /\ \E n \in Parents :
          /\ rec[n].layout = "wrap"
          /\ Len(rec[n].rows[Len(rec[n].rows)]) = 1
          /\ \E r \in 1..(Len(rec[n].rows) - 1) : Len(rec[n].rows[r]) % 2 = 1
-----------------------------------------------------------------------------
\* the ids whose membership differs between two collapsed sets
Flipped(before, after) == (before \ after) \cup (after \ before)

\* C15: a click toggles the id of the clicked node in collapsedIds only if
\* that node has at least one child in the original data; a click on a
\* childless node leaves collapsedIds unchanged, and a click never changes
\* the membership of any other id.
C15_ClickTogglesParentsOnly ==
    [][/\ collapsedIds' # collapsedIds =>
            \E n \in Visible :
                /\ Len(DataChildren(data, n)) > 0
                /\ Flipped(collapsedIds, collapsedIds') = {n}
       /\ \A n \in Nodes :
            (Click(n) /\ Len(DataChildren(data, n)) = 0) => collapsedIds' = collapsedIds
      ]_vars

\* a node was collapsed and drawn as a leaf beside a childless node, both of
\* which can be clicked
C15_Witness ==
    /\ ~pending
    /\ history.passes > 1
    /\ \E n \in Visible \cap collapsedIds : Len(DataChildren(data, n)) > 0
    /\ \E n \in Visible : Len(DataChildren(data, n)) = 0

\* C16: across a pass in which the identity of data is that of the previous
\* pass (after a collapse toggle, a move of the slider or a resize) the zoom
\* transform after the pass is the transform before it; the auto-fit
\* replaces the transform exactly in the passes where the identity of data
\* differs from that of the previous pass.
C16_TransformKept ==
    [][IsPass =>
          IF prevDataRef = dataRef
          THEN transformRef' = transformRef /\ prevDataRef' = prevDataRef
          ELSE /\ transformRef' = autoFit(dimensions, layoutBoundsRef')
               /\ prevDataRef' = dataRef
      ]_vars

\* the transform of a gesture of the user is in place after the data was
\* replaced, a node collapsed, the slider moved and the window resized
C16_Witness ==
    /\ ~pending
    /\ transformRef = userTransform
    /\ dataRef > 1 /\ prevDataRef = dataRef
    /\ collapsedIds # {}
    /\ targetAspectRatio # DefaultAspect
    /\ dimensions = ContainerSize

\* what the layout effect depends on
EffectInputs == <<data, dataRef, collapsedIds, targetAspectRatio, dimensions>>

\* C19: after any sequence of data replacements, collapse toggles, moves of
\* the slider and resizes, each change schedules a full pass, and once the
\* pass has run the drawn coordinates and the published bounds both come
\* from one pass over the current data, collapsedIds and targetAspectRatio:
\* the previous render is cleared and nothing of it is kept.
C19_FullPassOverCurrentInputs ==
    [][/\ EffectInputs' # EffectInputs => pending'
       /\ ~pending' =>
            /\ rec' = passLayout(data', collapsedIds', targetAspectRatio')
            /\ layoutBoundsRef' = calculateBounds(rec')
            /\ svg' = drawNodes(rec')
            /\ history'.last = [data |-> data', collapsedIds |-> collapsedIds',
                                targetAspectRatio |-> targetAspectRatio']
      ]_vars

\* a pass has run over a replaced tree with a collapsed node, after the
\* slider moved and the window was resized: fewer cards than the data has
C19_Witness ==
    /\ ~pending
    /\ dataRef > 1
    /\ targetAspectRatio # DefaultAspect
    /\ dimensions = ContainerSize
    /\ Visible # Nodes
    /\ Cardinality(svg) = Cardinality(Visible)
-----------------------------------------------------------------------------
\* the objects of a built tree that the chart reaches from the root
RECURSIVE ReachedFrom(_, _, _)
ReachedFrom(tree, frontier, seen) ==
    IF frontier \subseteq seen THEN seen
    ELSE ReachedFrom(tree,
                     UNION {Range(tree.children[id]) : id \in frontier \ seen},
                     seen \cup frontier)
HierarchyOf(tree) == ReachedFrom(tree, {tree.root}, {})

\* the places where id is a child: the parent and the position among its
\* children
PlacesOf(tree, id) ==
    {pk \in UNION {{<<p, k>> : k \in 1..Len(tree.children[p])} : p \in HierarchyOf(tree)} :
        tree.children[pk[1]][pk[2]] = id}

\* one root, which is nobody's child; every other node is the child of one
\* parent, once: no id occurs twice and no node is its own ancestor
WellFormed(tree) ==
    \A id \in HierarchyOf(tree) :
        Cardinality(PlacesOf(tree, id)) = IF id = tree.root THEN 0 ELSE 1

\* C14: for every flat node list from which buildTree returns a root, the
\* hierarchy handed to the chart is a well-formed tree: exactly one root,
\* every node id occurs once, every other node has exactly one parent, and
\* no node is its own ancestor.
C14_HandedTreeWellFormed ==
    newRoot # Null => WellFormed(newRoot)

\* the tree handed to the chart has a node that is its own ancestor: the
\* root is the child of one of its descendants
C14_CycleHanded ==
    /\ newRoot # Null
    /\ PlacesOf(newRoot, newRoot.root) # {}

\* the user names of the rows of a CSV
HasDuplicateNames(rows) ==
    \E i, j \in 1..Len(rows) : i < j /\ rows[i].name = rows[j].name
NoIdColumn(rows) == \A i \in 1..Len(rows) : rows[i].id = 0
DistinctExplicitIds(rows) ==
    /\ \A i \in 1..Len(rows) : rows[i].id # 0
    /\ \A i, j \in 1..Len(rows) : i < j => rows[i].id # rows[j].id

\* C18: in CSV input the user names must be unique unless an explicit id
\* column is supplied: a CSV with two rows of the same user name and no id
\* column is rejected with an error and no data update, and a CSV with two
\* rows of the same user name but distinct explicit ids is not rejected for
\* its names.
C18_DuplicateNamesNeedIds ==
    [][(handleCsvUpdate /\ HasDuplicateNames(csvInput)) =>
          /\ NoIdColumn(csvInput) =>
                /\ error' = "Duplicate user name detected"
                /\ newRoot' = newRoot
          /\ DistinctExplicitIds(csvInput) => error' # "Duplicate user name detected"
      ]_vars

\* a CSV of two rows of one name with the ids 1 and 2, the first the root and
\* the manager of the second, was rejected for its duplicate name
C18_RejectedDespiteIds ==
    /\ Len(csvInput) = 2
    /\ HasDuplicateNames(csvInput)
    /\ DistinctExplicitIds(csvInput)
    /\ csvInput[1].manager = 0
    /\ csvInput[2].manager = csvInput[1].name
    /\ error = "Duplicate user name detected"
    /\ newRoot = Null
-----------------------------------------------------------------------------
\* the positions of the list whose node has the id
PositionsOf(list, id) == {i \in 1..Len(list) : list[i].id = id}

\* C17: every list the generator returns forms a valid tree with exactly
\* one root: exactly one node has parentId "null", the ids are unique, and
\* the parentId of every other node is the id of a node that appears earlier
\* in the list.
C17_GeneratedListIsATree ==
    pc = "done" =>
        /\ Cardinality({i \in 1..Len(nodes) : nodes[i].parentId = NullId}) = 1
        /\ \A i \in 1..Len(nodes) : PositionsOf(nodes, nodes[i].id) = {i}
        /\ \A i \in 1..Len(nodes) :
              nodes[i].parentId # NullId =>
                  \E j \in 1..(i - 1) : nodes[j].id = nodes[i].parentId

\* a returned list with the four heads and two nodes more, the last under
\* the one before it, and the tree built from it has three levels below
\* the root
C17_Witness ==
    /\ pc = "done"
    /\ Len(headIds) = Len(deptHeads)
    /\ Len(nodes) > Len(deptHeads) + 2
    /\ nodes[Len(nodes)].parentId = nodes[Len(nodes) - 1].id
    /\ nodes[Len(nodes) - 1].parentId \in Range(headIds)
    /\ newRoot # Null
-----------------------------------------------------------------------------
\* the first k children of a row
RowPrefix(row, k) == SubSeq(row, 1, k)

\* C21: in a wrap parent a child is appended to a non-empty current row
\* only if the packed width of the row including that child (the child
\* widths plus GAP_H between neighbours) does not exceed idealRowWidth =
\* sqrt(linearWidth * maxChildHeight * targetAspectRatio), and a new row is
\* started otherwise; hence every wrap row of two children or more has a
\* packed width of at most idealRowWidth.
C21_WrapGreedyWithinIdeal ==
    ~pending =>
        \A n \in Parents :
            rec[n].layout = "wrap" =>
                LET rows == rec[n].rows IN
                /\ \A r \in 1..Len(rows) : \A k \in 2..Len(rows[r]) :
                       WithinIdeal(RowPacked(RowPrefix(rows[r], k)), n)
                /\ \A r \in 2..Len(rows) :
                       ~WithinIdeal(RowPacked(rows[r - 1]) + GAP_H + rec[rows[r][1]].w, n)

\* a wrap parent with a row after the first that holds two children and is
\* wider, gap included, than idealRowWidth, while the two widths without
\* the gap are within it
C21_RowOverIdeal ==
    /\ ~pending
    /\ \E n \in Parents :
          /\ rec[n].layout = "wrap"
          /\ \E r \in 2..Len(rec[n].rows) :
                LET row == rec[n].rows[r] IN
                /\ Len(row) = 2
                /\ ~WithinIdeal(RowPacked(row), n)
                /\ WithinIdeal(rec[row[1]].w + rec[row[2]].w, n)
-----------------------------------------------------------------------------
\* a footprint is that of a leaf: a parent is taller than a card
LeafFootprint(c) == rec[c].w = CARD_WIDTH /\ rec[c].h = CARD_HEIGHT

\* the layout type as the specification words it, from the number of
\* children, their footprints and the aspect ratio (in tenths)
SpecLayoutType(children, t) ==
    LET count == Len(children)
        linearWidth == GroupWidth(children, GAP_H)
        maxChildHeight == MaxChildHeight(children)
    IN  IF (\A c \in Range(children) : LeafFootprint(c)) /\ count > 3
        THEN "grid"
        ELSE IF /\ 10 * 2 * linearWidth
                      > 3 * t * (CARD_HEIGHT + GAP_V + maxChildHeight)
                /\ count >= 3
        THEN "wrap"
        ELSE "row"

\* C22: the layout type of every parent is a function of its child count,
\* the footprints of its children and targetAspectRatio only, and equals
\* grid if every visible child is a leaf and count > 3, otherwise wrap if
\* linearWidth / (H + Gv + maxChildHeight) > 1.5 * targetAspectRatio and
\* count >= 3, otherwise row; the viewport does not enter.
C22_LayoutTypeFunction ==
    ~pending =>
        \A n \in Parents :
            rec[n].layout = SpecLayoutType(Kids(n), targetAspectRatio)

\* after a resize and a collapse, a parent of three leaves laid out as a
\* wrap: count > 3 fails and the ratio exceeds 1.5 * targetAspectRatio
C22_Witness ==
    /\ ~pending
    /\ dimensions = ContainerSize
    /\ collapsedIds # {}
    /\ \E n \in Parents :
          /\ Len(Kids(n)) = 3
          /\ \A c \in Range(Kids(n)) : LeafFootprint(c)
          /\ rec[n].layout = "wrap"
-----------------------------------------------------------------------------
\* the child has visible children of its own
HasVisibleChildren(c) == Len(Kids(c)) > 0
WrapParents == {n \in Parents : rec[n].layout = "wrap"}

\* C23 as stated: wrap is used only for children of mixed depths: every
\* wrap parent has a child that itself has visible children, and a parent
\* all of whose visible children are leaves is never a wrap.
C23_Original ==
    ~pending =>
        \A n \in WrapParents : \E c \in Range(Kids(n)) : HasVisibleChildren(c)

\* C23 (amended): wrap is what is left to the parents that are not a grid:
\* every wrap parent has three children or more, and either one of them has
\* visible children of its own or they are exactly three leaves; a parent of
\* more than three leaves is never a wrap.
C23_WrapMixedOrThreeLeaves ==
    ~pending =>
        \A n \in WrapParents :
            /\ Len(Kids(n)) >= 3
            /\ \/ \E c \in Range(Kids(n)) : HasVisibleChildren(c)
               \/ Len(Kids(n)) = 3

\* a wrap parent of four children, one of which has a child of its own
C23_Witness ==
    /\ ~pending
    /\ \E n \in WrapParents :
          /\ Len(Kids(n)) > 3
          /\ \E c \in Range(Kids(n)) : HasVisibleChildren(c)
          /\ \E c \in Range(Kids(n)) : ~HasVisibleChildren(c)

\* the closing half of C21 alone: a row is closed only when the next child
\* would not fit
WrapRowsClosedWhenFull ==
    ~pending =>
        \A n \in WrapParents :
            \A r \in 2..Len(rec[n].rows) :
                ~WithinIdeal(RowPacked(rec[n].rows[r - 1]) + GAP_H
                                + rec[rec[n].rows[r][1]].w, n)
-----------------------------------------------------------------------------
\* the span from a to b (a point when a = b) meets the open interval (lo, hi)
SpanMeets(a, b, lo, hi) ==
    IF a = b THEN lo < a /\ a < hi
    ELSE Max(Min(a, b), lo) < Min(Max(a, b), hi)

\* the straight segment from p to q passes through the open card of node o
SegmentThroughCard(p, q, o) ==
    /\ SpanMeets(p.x, q.x, rec[o].x - CARD_WIDTH \div 2, rec[o].x + CARD_WIDTH \div 2)
    /\ SpanMeets(p.y, q.y, rec[o].y, rec[o].y + CARD_HEIGHT)

\* the vertical and horizontal segments of a path
PathThroughCard(d, o) ==
    \E k \in 1..(Len(d) - 1) : SegmentThroughCard(d[k], d[k + 1], o)

\* C24: for every grid or wrap parent, the connector drawn to each child
\* (trunk at the parent's x down to branchY = child.y - GAP_V / 2, across to
\* the child's x, down to the child's top) does not pass through the card
\* rectangle of any other child of that parent.
C24_ConnectorsClearOfSiblings ==
    ~pending =>
        \A l \in links :
            l.source \in Blocks =>
                \A o \in Range(Kids(l.source)) :
                    o # l.target => ~PathThroughCard(l.d, o)

\* a grid of two rows whose second row has two cards: the connector to a
\* card of the second row crosses the card above it
C24_GridLinkCrossesCard ==
    /\ ~pending
    /\ \E l \in links :
          /\ rec[l.source].layout = "grid"
          /\ Len(rec[l.source].rows) = 2
          /\ \E o \in Range(rec[l.source].rows[1]) :
                /\ rec[o].x = rec[l.target].x
                /\ PathThroughCard(l.d, o)

\* the same for the wrap parents alone
WrapConnectorsClearOfSiblings ==
    ~pending =>
        \A l \in links :
            rec[l.source].layout = "wrap" =>
                \A o \in Range(Kids(l.source)) :
                    o # l.target => ~PathThroughCard(l.d, o)
-----------------------------------------------------------------------------
\* C25: whenever the auto-fit is performed (first pass after mount or after
\* a data replacement), the transform is computed from the measured viewport
\* of the container, so that once the re-renders have settled (the measured
\* dimensions are in the state and no pass is pending) an auto-fit transform
\* in effect is one fitted to the actual viewport, not to the default or an
\* earlier size.
C25_AutoFitInActualViewport ==
    (~pending /\ dimensions = ContainerSize /\ transformRef.fit) =>
        transformRef.dims = dimensions

\* settled after the mount: the transform in effect is the one fitted to
\* the default 800 x 600, the viewport is the measured one
C25_FittedToDefault ==
    /\ ~pending
    /\ dimensions = ContainerSize
    /\ dataRef = 1
    /\ transformRef = autoFit(DefaultDimensions, layoutBoundsRef)
-----------------------------------------------------------------------------
\* the tree that buildTree returns for an OrgNode: its root and its children
BuiltFrom(tree) == [root |-> tree.root, children |-> tree.children]

\* C26: the flat list and the tree are kept in sync: for every well-formed
\* OrgNode tree t with unique ids, buildTree(flattenTree(t)) is a tree with
\* the same root, the same node ids, the same parent-child relation and the
\* same order of children as t.
C26_RoundTrip ==
    /\ jsonInput.flat = flattenTree(currentData, currentData.root, NullId)
    /\ buildTree(jsonInput.flat) = BuiltFrom(currentData)
    /\ newRoot # Null => newRoot = BuiltFrom(currentData) /\ error = NoError

\* the list of a tree of three nodes whose ids are not in document order and
\* whose root has two children has been applied
C26_Witness ==
    /\ newRoot # Null
    /\ currentData.root # 1
    /\ Len(currentData.children[currentData.root]) = 2
    /\ currentData.children[currentData.root][1] > currentData.children[currentData.root][2]
-----------------------------------------------------------------------------
\* C27: every visible child is positioned exactly once.  The rows of a grid
\* or wrap parent are all non-empty and their concatenation, in order, is
\* the sequence of its visible children; the rows of a row parent and of a
\* node without visible children are empty; every child of a positioned
\* node is positioned, under that one parent.
C27_RowsPartitionChildren ==
    ~pending =>
        /\ \A n \in Visible :
              /\ rec[n].layout \in {"grid", "wrap"} =>
                    /\ \A r \in 1..Len(rec[n].rows) : Len(rec[n].rows[r]) > 0
                    /\ Flatten(rec[n].rows) = Kids(n)
              /\ rec[n].layout \in {"row", "leaf"} => rec[n].rows = <<>>
              /\ rec[n].layout \in {"grid", "wrap", "row", "leaf"}
              /\ \A c \in Range(Kids(n)) : rec[c].placed
              /\ \A i, j \in 1..Len(Kids(n)) : Kids(n)[i] = Kids(n)[j] => i = j
        /\ \A c \in Visible \ {1} :
              Cardinality({n \in Visible : c \in Range(Kids(n))}) = 1

\* a wrap parent of three rows, one of whose children is a row parent
C27_Witness ==
    /\ ~pending
    /\ \E n \in Parents :
          /\ rec[n].layout = "wrap"
          /\ Len(rec[n].rows) = 3
          /\ \E c \in Range(Kids(n)) : rec[c].layout = "row"
-----------------------------------------------------------------------------
\* the visible nodes of the subtree of n, n included
VisibleSubtree(n) == {d \in Visible : n \in AncestorsOrSelf(data, d)}

\* the card of d lies inside the footprint rectangle of n
CardInsideFootprint(d, n) ==
    /\ FootLeft(n) <= rec[d].x - CARD_WIDTH \div 2
    /\ rec[d].x + CARD_WIDTH \div 2 <= FootRight(n)
    /\ rec[n].y <= rec[d].y
    /\ rec[d].y + CARD_HEIGHT <= rec[n].y + rec[n].h

\* C28: subtree containment: after a pass, the card of every visible node n
\* and of every visible descendant of n lies inside the footprint rectangle
\* [n.x - n.width/2, n.x + n.width/2] x [n.y, n.y + n.height] of n; the
\* bounding rectangle is inside the footprint of the root and as high as it.
C28_SubtreeInsideFootprint ==
    ~pending =>
        /\ \A n \in Visible : \A d \in VisibleSubtree(n) : CardInsideFootprint(d, n)
        /\ FootLeft(1) <= layoutBoundsRef.minX
        /\ layoutBoundsRef.minX + layoutBoundsRef.treeWidth <= FootRight(1)
        /\ layoutBoundsRef.minY = rec[1].y
        /\ layoutBoundsRef.treeHeight = rec[1].h

\* a wrap parent below the root whose footprint is wider than its cards
\* reach: the last row is the widest on one side only
C28_Witness ==
    /\ ~pending
    /\ \E n \in Blocks :
          /\ Len(rec[n].rows) >= 2
          /\ CardBounds(VisibleSubtree(n)).treeWidth < rec[n].w
          /\ \E d \in VisibleSubtree(n) : data[d] # n /\ d # n
-----------------------------------------------------------------------------
\* C29: after a pass no two distinct visible nodes anywhere in the tree,
\* siblings, cousins or ancestor and descendant, have overlapping card
\* rectangles, at every aspect ratio of the slider.
C29_NoTwoCardsOverlap ==
    ~pending => \A a, b \in Visible : a # b => ~CardsOverlap(a, b)

\* cousins in neighbouring subtrees at the same height, below a wrap parent
C29_Witness ==
    /\ ~pending
    /\ \E a, b \in Visible :
          /\ a # b
          /\ data[a] # data[b]
          /\ data[a] # 1 /\ data[b] # 1
          /\ rec[a].y = rec[b].y
    /\ \E n \in Parents : rec[n].layout = "wrap"
-----------------------------------------------------------------------------
\* the step replaces the data
DataReplaced == dataRef' # dataRef

\* the step is the first pass over a tree that replaced another one
FirstPassOverNewTree == pending /\ ~pending' /\ prevDataRef # dataRef /\ dataRef > 1

\* the step changes collapsedIds as a click on a drawn node with children does
ClickedParent ==
    /\ ~pending
    /\ \E n \in 1..Len(data) :
          /\ rec[n].placed
          /\ Len(DataChildren(data, n)) > 0
          /\ collapsedIds' = toggle(collapsedIds, n)

\* the pass of the step lays n out as a leaf card
LaidOutAsLeaf(n) ==
    /\ rec'[n].placed
    /\ rec'[n].layout = "leaf"
    /\ rec'[n].children = <<>>
    /\ rec'[n].w = CARD_WIDTH /\ rec'[n].h = CARD_HEIGHT

\* C30 as stated: replacing the data leaves collapsedIds unchanged, every
\* node of the new tree whose id is in the set is laid out as a collapsed
\* leaf in the first pass over the new tree, and only a click on a node
\* changes collapsedIds.
C30_Original ==
    [][/\ DataReplaced => collapsedIds' = collapsedIds
       /\ collapsedIds' # collapsedIds => ClickedParent
       /\ FirstPassOverNewTree =>
             \A n \in 1..Len(data) : n \in collapsedIds => LaidOutAsLeaf(n)
      ]_vars

\* C30 (amended): replacing the data leaves collapsedIds unchanged, every
\* node of the new tree whose id is in the set and that has no ancestor in
\* the set is laid out as a collapsed leaf in the first pass over the new
\* tree, a node below one in the set is not laid out at all, and only a
\* click on a node with children changes collapsedIds.
C30_CollapseSurvivesReplacement ==
    [][/\ DataReplaced => collapsedIds' = collapsedIds
       /\ collapsedIds' # collapsedIds => ClickedParent
       /\ FirstPassOverNewTree =>
             \A n \in 1..Len(data) :
                 IF (AncestorsOrSelf(data, n) \ {n}) \cap collapsedIds = {}
                 THEN n \in collapsedIds => LaidOutAsLeaf(n)
                 ELSE ~rec'[n].placed
      ]_vars

\* after one replacement: the transform was fitted to the bounds of a pass
\* that laid a parent of the new tree out as a collapsed leaf, so the id was
\* in the set before the first pass over the new tree
C30_Witness ==
    /\ ~pending
    /\ dataRef = 2
    /\ prevDataRef = dataRef
    /\ transformRef.fit
    /\ transformRef.bounds = layoutBoundsRef
    /\ layoutBoundsRef # calculateBounds(passLayout(data, {}, targetAspectRatio))
    /\ \E n \in collapsedIds :
          Len(DataChildren(data, n)) > 0 /\ rec[n].placed /\ rec[n].layout = "leaf"
====
